---- MODULE Spec2Model ----
(***************************************************************************)
(* Multi-project clangd extension: the project resolution strategies       *)
(* (workspace folders, cmake build directories), the ClangdProjectService  *)
(* that owns them and the ClangdContext that routes documents to language  *)
(* clients.  Strings are sequences of one-character strings, so that       *)
(* startsWith, lastIndexOf and substring are computed as JavaScript does.  *)
(***************************************************************************)
EXTENDS Naturals, Integers, Sequences, FiniteSets, TLC

VARIABLES
  hostFolders,  \* vscode.workspace.workspaceFolders, in the host's order
  fsDirs,       \* directories on disk that the '**/build' glob can match
  fsFiles,      \* files on disk (compile_commands.json paths)
  wf,           \* the WorkspaceFolderStrategy instance
  cm,           \* the CmakeProjectStrategy instance
  scans,        \* suspended findProjects() calls of the cmake strategy
  ext,          \* the strategies that other extensions register
  config,       \* the settings clangd.multiProject.enabled and .strategy
  openDocs,     \* vscode.workspace.textDocuments, in the host's order
  svc,          \* the ClangdProjectService
  ctx,          \* the ClangdContext
  tasks,        \* suspended async calls, in the order they were suspended
  hist,         \* strategy ids registered so far, extensions that failed
  count,        \* how many host events of each kind have happened
  obs           \* what the last step did, for the properties

vars == <<hostFolders, fsDirs, fsFiles, wf, cm, scans, ext, config, openDocs,
          svc, ctx, tasks, hist, count, obs>>

-----------------------------------------------------------------------------
(* Bounds of the model *)

MaxInit == 2
MaxFolderEvents == 2
MaxFsEvents == 1
MaxEvents == 2
MaxClients == 3
MaxInstalls == 1
MaxDispose == 2
MaxUnregister == 1

-----------------------------------------------------------------------------
(* JavaScript strings *)

Min(a, b) == IF a <= b THEN a ELSE b
Max(a, b) == IF a >= b THEN a ELSE b

StartsWith(s, p) == Len(p) <= Len(s) /\ SubSeq(s, 1, Len(p)) = p

EndsWith(s, p) == Len(p) <= Len(s) /\ SubSeq(s, Len(s) - Len(p) + 1, Len(s)) = p

\* String.prototype.lastIndexOf: 0-based index of the last occurrence, or -1
LastIndexOf(s, p) ==
  LET hits == {i \in 0..(Len(s) - Len(p)) : SubSeq(s, i + 1, i + Len(p)) = p}
  IN  IF hits = {} THEN -1 ELSE CHOOSE i \in hits : \A j \in hits : j <= i

Clamp(n, len) == IF n < 0 THEN 0 ELSE IF n > len THEN len ELSE n

\* String.prototype.substring: arguments clamped to [0, length] and swapped
\* when start > end
Substring(s, a, b) ==
  LET x == Clamp(a, Len(s))
      y == Clamp(b, Len(s))
  IN  SubSeq(s, Min(x, y) + 1, Max(x, y))

Slash == <<"/">>
FileScheme == <<"f", "i", "l", "e", ":", "/", "/">>
BuildName == <<"b", "u", "i", "l", "d">>
BuildNameUpper == <<"B", "u", "i", "l", "d">>
SlashBuild == Slash \o BuildName
DbName == <<"compile_commands.json">>

\* A vscode.Uri of scheme file is modelled by its path.
\* Uri.toString() puts the scheme in front of the path
UriToString(uri) == FileScheme \o uri

\* Uri.parse() of a string produced by toString() takes the scheme off again
UriParse(str) ==
  IF StartsWith(str, FileScheme) THEN SubSeq(str, Len(FileScheme) + 1, Len(str))
  ELSE str

\* Uri.file(): a path that does not start with a slash gets one
UriFile(path) == IF Len(path) > 0 /\ path[1] = "/" THEN path ELSE Slash \o path

\* path.join(a, b) of an absolute a and a relative b; a trailing slash of b is
\* kept, a doubled slash between the two is collapsed
PathJoin(a, b) == IF EndsWith(a, Slash) THEN a \o b ELSE a \o Slash \o b

RECURSIVE StripTrailingSlashes(_)
StripTrailingSlashes(p) ==
  IF Len(p) > 1 /\ EndsWith(p, Slash)
  THEN StripTrailingSlashes(SubSeq(p, 1, Len(p) - 1))
  ELSE p

\* path.basename()
Basename(p) ==
  LET q == StripTrailingSlashes(p)
      i == LastIndexOf(q, Slash)
  IN  SubSeq(q, i + 2, Len(q))

\* the directory dir contains the path p (or is p): containment by path
\* segments, not by characters
PathContains(dir, p) ==
  LET d == StripTrailingSlashes(dir)
      q == StripTrailingSlashes(p)
  IN  d = q \/ StartsWith(q, IF d = Slash THEN d ELSE d \o Slash)

Range(s) == {s[i] : i \in 1..Len(s)}

\* the element of a set of one element: TheOne({F(x) : x \in {e}}) is F(e)
\* with e evaluated once
TheOne(S) == CHOOSE x \in S : TRUE

RECURSIVE SetToSeq(_)
SetToSeq(S) ==
  IF S = {} THEN <<>>
  ELSE LET x == CHOOSE y \in S : TRUE IN <<x>> \o SetToSeq(S \ {x})

RECURSIVE MapSeqLen(_, _)
\* the elements of s whose length is n, in their order in s, for n upwards:
\* Array.prototype.sort((a, b) => a.length - b.length), which is stable
MapSeqLen(s, n) ==
  IF \A i \in 1..Len(s) : Len(s[i]) < n THEN <<>>
  ELSE SelectSeq(s, LAMBDA e : Len(e) = n) \o MapSeqLen(s, n + 1)

SortByLength(s) == MapSeqLen(s, 0)

-----------------------------------------------------------------------------
(* The host: workspace folders *)

NoFolder == <<>>

\* vscode.workspace.getWorkspaceFolder(uri): the innermost workspace folder
\* that contains the uri, undefined when there is none
GetWorkspaceFolder(folders, uri) ==
  LET inside == {f \in Range(folders) : PathContains(f, uri)}
  IN  IF inside = {} THEN NoFolder
      ELSE CHOOSE f \in inside : \A g \in inside : Len(g) <= Len(f)

-----------------------------------------------------------------------------
(* Project, ProjectsChange *)

NoProject == [ref |-> <<>>, id |-> <<>>, label |-> <<>>, uri |-> <<>>]

\* a project object: ref is the identity of the object (=== compares it)
MkProject(owner, n, uri) ==
  [ref |-> <<owner, n>>, id |-> UriToString(uri), label |-> Basename(uri), uri |-> uri]

NoChange == [added |-> <<>>, removed |-> <<>>, updated |-> <<>>]

\* Array.prototype.find with the predicate of both strategies' resolve()
ResolveIn(projects, fileUri) ==
  LET hits == {i \in 1..Len(projects) :
                 StartsWith(UriToString(fileUri), UriToString(projects[i].uri))}
  IN  IF hits = {} THEN NoProject
      ELSE projects[CHOOSE i \in hits : \A j \in hits : i <= j]

-----------------------------------------------------------------------------
(* WorkspaceFolderStrategy *)

WorkspaceFolderStrategyID == "workspaceFolders"

WFNew ==
  [sortedWorkspaces |-> <<>>, projects |-> <<>>, subscriptions |-> 0,
   allocs |-> 0, inits |-> 0, disposed |-> FALSE, pushed |-> 0,
   disposeCalls |-> 0, disposes |-> 0]

toUri(folder) ==
  LET result == UriToString(folder)
  IN  IF EndsWith(result, Slash) THEN result ELSE result \o Slash

getSortedWorkspaces(folders) ==
  SortByLength([i \in 1..Len(folders) |-> toUri(folders[i])])

\* the argument is the string form of a folder (toUri already applied)
getOuterMostWorkspaceFolder(sortedWorkspaces, folders, uri) ==
  LET hits == {i \in 1..Len(sortedWorkspaces) : StartsWith(uri, sortedWorkspaces[i])}
  IN  IF hits # {}
      THEN GetWorkspaceFolder(folders,
             UriParse(sortedWorkspaces[CHOOSE i \in hits : \A j \in hits : i <= j]))
      ELSE GetWorkspaceFolder(folders, UriParse(uri))

WFcreateProject(n, workspace) == MkProject(WorkspaceFolderStrategyID, n, workspace)

WFresolve(w, fileUri) == ResolveIn(w.projects, fileUri)

\* initialize(): subscribes to the folder changes, sorts the folders, pushes
\* one project per folder (that of its outermost folder) and fires the list.
\* Every element of the fresh sorted list is a current folder, so no lookup
\* is undefined here.
WFinitialize(w, folders) ==
  LET sorted == getSortedWorkspaces(folders)
      outer == [i \in 1..Len(sorted) |->
                  getOuterMostWorkspaceFolder(sorted, folders, sorted[i])]
      pushed == [i \in 1..Len(sorted) |-> WFcreateProject(w.allocs + i, outer[i])]
      projects == w.projects \o pushed
  IN  [wf |-> [w EXCEPT !.subscriptions = @ + 1,
                        !.pushed = @ + 1,
                        !.sortedWorkspaces = sorted,
                        !.projects = projects,
                        !.allocs = @ + Len(sorted),
                        !.inits = @ + 1],
       threw |-> FALSE,
       events |-> <<[NoChange EXCEPT !.added = projects]>>]

\* the onDidChangeWorkspaceFolders listener of one subscription; folders is
\* the folder list after the change.  createProject(undefined) throws a
\* TypeError, and then nothing is fired.
WFonDidChangeWorkspaceFolders(w, folders, added, removed) ==
  LET outerA == [i \in 1..Len(added) |->
                   getOuterMostWorkspaceFolder(w.sortedWorkspaces, folders, toUri(added[i]))]
      outerR == [i \in 1..Len(removed) |->
                   getOuterMostWorkspaceFolder(w.sortedWorkspaces, folders, toUri(removed[i]))]
      throws == \/ \E i \in 1..Len(added) : outerA[i] = NoFolder
                \/ \E i \in 1..Len(removed) : outerR[i] = NoFolder
      pa == [i \in 1..Len(added) |-> WFcreateProject(w.allocs + i, outerA[i])]
      pr == [i \in 1..Len(removed) |->
               WFcreateProject(w.allocs + Len(added) + i, outerR[i])]
  IN  IF throws
      THEN [wf |-> w, threw |-> TRUE, events |-> <<>>]
      ELSE [wf |-> [w EXCEPT !.allocs = @ + Len(added) + Len(removed)],
            threw |-> FALSE,
            events |-> <<[NoChange EXCEPT !.added = pa, !.removed = pr]>>]

\* dispose(): dispose() is called on every entry of the subscriptions array,
\* and the array keeps its entries.  subscriptions counts the listeners that
\* are still attached, pushed the entries of the array, disposeCalls the
\* dispose() calls made on entries.
WFdispose(w) ==
  [w EXCEPT !.subscriptions = 0, !.disposed = TRUE,
            !.disposeCalls = @ + w.pushed, !.disposes = @ + 1]

-----------------------------------------------------------------------------
(* CmakeProjectStrategy *)

CmakeProjectStrategyID == "cmake.build"

CMNew == [projects |-> <<>>, subscriptions |-> 0, allocs |-> 0, inits |-> 0,
          disposed |-> FALSE, pushed |-> 0, disposeCalls |-> 0, disposes |-> 0]

NoUri == <<>>

\* the directories the model can have on disk, in the order glob reports
\* them (sorted by name)
DirUniverse ==
  << <<"/", "a">> \o SlashBuild,
     <<"/", "a">> \o Slash \o BuildNameUpper,
     <<"/", "b">> \o SlashBuild >>

\* glob('**/build', {cwd, nocase: true, mark: true}) joined to cwd again by
\* path.join(options.cwd, match): the directories below cwd whose name is
\* build in any case, each with the trailing slash that mark adds
GlobBuild(dirs, cwd) ==
  LET hit(d) == /\ d \in dirs
                /\ PathContains(cwd, d)
                /\ Basename(d) \in {BuildName, BuildNameUpper}
      found == SelectSeq(DirUniverse, hit)
  IN  [i \in 1..Len(found) |-> PathJoin(cwd, SubSeq(found[i], Len(cwd) + 2, Len(found[i])) \o Slash)]

\* the file system watcher's glob '**/build' is case sensitive and matches
\* a path whose last segment is build
WatcherMatches(path) == EndsWith(path, SlashBuild)

\* a variant that roots the project at the build directory itself
getProjectDirectoryMutant(files, buildDir) ==
  LET compilationDb == PathJoin(buildDir, DbName)
  IN  IF compilationDb \in files THEN UriFile(StripTrailingSlashes(buildDir)) ELSE NoUri

\* getProjectDirectory(uri): the parent of the build directory when the
\* directory holds compile_commands.json
getProjectDirectory(files, buildDir) ==
  LET compilationDb == PathJoin(buildDir, DbName)
  IN  IF compilationDb \in files
      THEN UriFile(Substring(buildDir, 0, LastIndexOf(buildDir, SlashBuild)))
      ELSE NoUri

CMcreateProject(n, projectUri) == MkProject(CmakeProjectStrategyID, n, projectUri)

CMresolve(c, fileUri) == ResolveIn(c.projects, fileUri)

configureFileWatcher(c) == [c EXCEPT !.subscriptions = @ + 1, !.pushed = @ + 1]

\* one round of the loop of findProjects(): the glob of one workspace folder
\* has answered; every match with a compilation database pushes a project,
\* then the whole list is fired as added
CMfindProjectsStep(c, dirs, files, cwd) ==
  LET matches == GlobBuild(dirs, cwd)
      dirOf == [i \in 1..Len(matches) |-> getProjectDirectory(files, matches[i])]
      good == SelectSeq([i \in 1..Len(matches) |-> dirOf[i]], LAMBDA u : u # NoUri)
      pushed == [i \in 1..Len(good) |-> CMcreateProject(c.allocs + i, good[i])]
      projects == c.projects \o pushed
  IN  [cm |-> [c EXCEPT !.projects = projects, !.allocs = @ + Len(good)],
       events |-> <<[NoChange EXCEPT !.added = projects]>>]

\* watcher.onDidCreate listener
CMonDidCreate(c, files, uri) ==
  LET projectDir == getProjectDirectory(files, uri)
      project == CMcreateProject(c.allocs + 1, projectDir)
  IN  IF projectDir # NoUri
      THEN [cm |-> [c EXCEPT !.projects = Append(@, project), !.allocs = @ + 1],
            events |-> <<[NoChange EXCEPT !.added = <<project>>]>>]
      ELSE [cm |-> c, events |-> <<>>]

\* Array.prototype.indexOf: strict equality, so an object is found only by
\* its identity
IndexOfProject(projects, project) ==
  LET hits == {i \in 1..Len(projects) : projects[i] = project}
  IN  IF hits = {} THEN -1 ELSE (CHOOSE i \in hits : \A j \in hits : i <= j) - 1

\* watcher.onDidDelete listener: indexOf is given a project object created
\* for the lookup; splice(index) removes from index to the end
CMonDidDelete(c, files, uri) ==
  LET projectDir == getProjectDirectory(files, uri)
      index == IndexOfProject(c.projects, CMcreateProject(c.allocs + 1, projectDir))
      removed == SubSeq(c.projects, index + 1, Len(c.projects))
  IN  IF projectDir # NoUri
      THEN IF index >= 0
           THEN [cm |-> [c EXCEPT !.projects = SubSeq(@, 1, index), !.allocs = @ + 1],
                 events |-> <<[NoChange EXCEPT !.removed = removed]>>]
           ELSE [cm |-> [c EXCEPT !.allocs = @ + 1], events |-> <<>>]
      ELSE [cm |-> c, events |-> <<>>]

\* dispose(): dispose() is called on every watcher in the subscriptions
\* array, and the array keeps its entries
CMdispose(c) ==
  [c EXCEPT !.subscriptions = 0, !.disposed = TRUE,
            !.disposeCalls = @ + c.pushed, !.disposes = @ + 1]

-----------------------------------------------------------------------------
(* The folder-based strategy on its own: SpecWF *)

PA == <<"/", "a">>
PAB == <<"/", "a", "b">>
PAS == <<"/", "a", "/", "s">>
PB == <<"/", "b">>
PZ == <<"/", "z">>

FolderUniverse == {PA, PAB, PAS, PB}

FileName == <<"/", "x">>
FileUniverse == {f \o FileName : f \in FolderUniverse \cup {PZ}}

\* every list without repetition of the folders in S
RECURSIVE Orderings(_)
Orderings(S) ==
  IF S = {} THEN {<<>>}
  ELSE UNION {{<<x>> \o t : t \in Orderings(S \ {x})} : x \in S}

NoObs == [op |-> "none", events |-> <<>>, threw |-> FALSE, arg |-> <<>>,
          added |-> <<>>, removed |-> <<>>, kind |-> "none", upd |-> FALSE,
          result |-> NoProject, returned |-> FALSE, fired |-> FALSE,
          sid |-> "undefined", inst |-> 0, ok |-> FALSE, session |-> 0]

NoCount == [folderEvents |-> 0, fsEvents |-> 0, events |-> 0, unregisters |-> 0]

NoFs == /\ fsDirs = {}
        /\ fsFiles = {}

\* the parts of the state a strategy on its own does not use
NoService ==
  /\ ext = <<>>
  /\ config = <<>>
  /\ openDocs = <<>>
  /\ svc = <<>>
  /\ ctx = <<>>
  /\ tasks = <<>>
  /\ hist = <<>>

serviceVars == <<ext, config, openDocs, svc, ctx, tasks, hist>>

InitWF ==
  /\ hostFolders \in UNION {Orderings(S) : S \in SUBSET FolderUniverse}
  /\ NoFs
  /\ NoService
  /\ wf = WFNew
  /\ cm = CMNew
  /\ scans = <<>>
  /\ count = NoCount
  /\ obs = NoObs

\* the listeners of all n subscriptions of the strategy run one after the other
RECURSIVE WFlisteners(_, _, _, _, _)
WFlisteners(n, w, folders, added, removed) ==
  IF n = 0 THEN [wf |-> w, threw |-> FALSE, events |-> <<>>]
  ELSE TheOne({LET rest == WFlisteners(n - 1, one.wf, folders, added, removed)
               IN  [wf |-> rest.wf, threw |-> one.threw \/ rest.threw,
                    events |-> one.events \o rest.events] :
                 one \in {WFonDidChangeWorkspaceFolders(w, folders, added, removed)}})

WFInitializeAct ==
  /\ wf.inits < MaxInit
  /\ ~wf.disposed
  /\ LET r == WFinitialize(wf, hostFolders)
     IN  /\ wf' = r.wf
         /\ obs' = [NoObs EXCEPT !.op = "initialize", !.events = r.events]
  /\ UNCHANGED <<hostFolders, fsDirs, fsFiles, cm, scans, count, serviceVars>>

\* the host adds and removes workspace folders and tells the listeners
WFFoldersChangedAct(added, removed) ==
  /\ count.folderEvents < MaxFolderEvents
  /\ Len(added) + Len(removed) > 0
  /\ LET folders == SelectSeq(hostFolders, LAMBDA f : f \notin Range(removed)) \o added
         r == WFlisteners(wf.subscriptions, wf, folders, added, removed)
     IN  /\ hostFolders' = folders
         /\ wf' = r.wf
         /\ obs' = [NoObs EXCEPT !.op = "foldersChanged", !.events = r.events,
                                 !.threw = r.threw, !.added = added,
                                 !.removed = removed]
  /\ count' = [count EXCEPT !.folderEvents = @ + 1]
  /\ UNCHANGED <<fsDirs, fsFiles, cm, scans, serviceVars>>

WFDisposeAct ==
  /\ wf.disposes < MaxDispose
  /\ wf.inits > 0
  /\ wf' = WFdispose(wf)
  /\ obs' = [NoObs EXCEPT !.op = "dispose"]
  /\ UNCHANGED <<hostFolders, fsDirs, fsFiles, cm, scans, count, serviceVars>>

AtMostOne(S) == {<<>>} \cup {<<x>> : x \in S}

NextWF ==
  \/ WFInitializeAct
  \/ \E added \in AtMostOne(FolderUniverse \ Range(hostFolders)),
        removed \in AtMostOne(Range(hostFolders)) :
       WFFoldersChangedAct(added, removed)
  \/ WFDisposeAct

SpecWF == InitWF /\ [][NextWF]_vars

-----------------------------------------------------------------------------
(* Properties of the folder-based strategy *)

FoldersContaining(folders, f) == {d \in Range(folders) : PathContains(d, f)}

\* the outermost workspace folder that contains f (there is one)
OutermostFolder(folders, f) ==
  CHOOSE d \in FoldersContaining(folders, f) :
    \A e \in FoldersContaining(folders, f) : Len(d) <= Len(e)

TopLevelFolders(folders) == {OutermostFolder(folders, d) : d \in Range(folders)}

\* the strategy is initialized and no folder has changed since
WFCurrent == wf.inits >= 1 /\ wf.sortedWorkspaces = getSortedWorkspaces(hostFolders)

\* C8: once the folder-based strategy is initialized, every file under some
\* workspace folder resolves to the project of the outermost workspace folder
\* that contains it, and no file resolves to a project whose root folder does
\* not contain it (nested folders and siblings that share a string prefix
\* included).
C8_OutermostFolderProject ==
  WFCurrent =>
    \A f \in FileUniverse :
      LET r == WFresolve(wf, f)
      IN  /\ FoldersContaining(hostFolders, f) # {} =>
               r # NoProject /\ r.uri = OutermostFolder(hostFolders, f)
          /\ r # NoProject => PathContains(r.uri, f)

Uris(projects) == [i \in 1..Len(projects) |-> projects[i].uri]

\* C9: after the host reports workspace folders added or removed, the
\* listener has completed without error, one ProjectsChange names the
\* projects of the added and of the removed folders, and the projects list
\* and resolve() reflect the current folder set.
C9_FolderChangeReflected ==
  (obs.op = "foldersChanged" /\ wf.subscriptions = 1) =>
    /\ ~obs.threw
    /\ Len(obs.events) = 1
    /\ Len(obs.events[1].added) = Len(obs.added)
    /\ \A i \in 1..Len(obs.added) :
         PathContains(obs.events[1].added[i].uri, obs.added[i] \o FileName)
    /\ Len(obs.events[1].removed) = Len(obs.removed)
    /\ \A i \in 1..Len(obs.removed) :
         PathContains(obs.events[1].removed[i].uri, obs.removed[i] \o FileName)
    /\ Range(Uris(wf.projects)) = TopLevelFolders(hostFolders)
    /\ \A i \in 1..Len(obs.added) :
         obs.added[i] \in TopLevelFolders(hostFolders) =>
           WFresolve(wf, obs.added[i] \o FileName).uri = obs.added[i]
    /\ \A i \in 1..Len(obs.removed) :
         WFresolve(wf, obs.removed[i] \o FileName).uri # obs.removed[i]

\* C27: the projects list of the folder-based strategy holds no two projects
\* with the same id
C27_ProjectIdsUnique ==
  \A i, j \in 1..Len(wf.projects) :
    wf.projects[i].id = wf.projects[j].id => i = j

\* C13: when dispose() has run on the folder-based strategy, once or twice, no
\* entry of its subscriptions array has had dispose() called on it more than
\* once
C13_NoDuplicateDispose ==
  obs.op = "dispose" => wf.disposeCalls <= wf.pushed

-----------------------------------------------------------------------------
(* The build-directory strategy on its own: SpecCM *)

CMFolders == <<PA, PB>>

DbOf(dir) == PathJoin(dir, DbName)

InitCM ==
  /\ hostFolders = CMFolders
  /\ fsDirs \in SUBSET Range(DirUniverse)
  /\ fsFiles \in SUBSET {DbOf(d) : d \in fsDirs}
  /\ NoService
  /\ wf = WFNew
  /\ cm = CMNew
  /\ scans = <<>>
  /\ count = NoCount
  /\ obs = NoObs

\* initialize(): the watcher is configured, then findProjects() starts the
\* glob of the first workspace folder and is suspended on it; without
\* workspace folders it is done at once
CMinitialize(c, folders) ==
  [cm |-> [configureFileWatcher(c) EXCEPT !.inits = @ + 1],
   scan |-> IF Len(folders) = 0 THEN <<>>
            ELSE <<[id |-> c.inits + 1, next |-> 1, folders |-> folders]>>]

\* the listeners of all n watchers of the strategy run one after the other
RECURSIVE CMwatchers(_, _, _, _, _)
CMwatchers(n, c, files, kind, uri) ==
  IF n = 0 \/ ~WatcherMatches(uri) THEN [cm |-> c, events |-> <<>>]
  ELSE LET one == IF kind = "create" THEN CMonDidCreate(c, files, uri)
                  ELSE CMonDidDelete(c, files, uri)
           rest == CMwatchers(n - 1, one.cm, files, kind, uri)
       IN  [cm |-> rest.cm, events |-> one.events \o rest.events]

CMInitializeAct ==
  /\ cm.inits < MaxInit
  /\ ~cm.disposed
  /\ LET r == CMinitialize(cm, hostFolders)
     IN  /\ cm' = r.cm
         /\ scans' = scans \o r.scan
  /\ obs' = [NoObs EXCEPT !.op = "initialize"]
  /\ UNCHANGED <<hostFolders, fsDirs, fsFiles, wf, count, serviceVars>>

\* the glob of suspended findProjects() call k answers
CMScanAct(k) ==
  /\ k \in 1..Len(scans)
  /\ LET sc == scans[k]
         cwd == sc.folders[sc.next]
         r == CMfindProjectsStep(cm, fsDirs, fsFiles, cwd)
         others == [i \in 1..(Len(scans) - 1) |-> IF i < k THEN scans[i] ELSE scans[i + 1]]
     IN  /\ cm' = r.cm
         /\ scans' = IF sc.next < Len(sc.folders)
                     THEN [scans EXCEPT ![k].next = @ + 1]
                     ELSE others
         /\ obs' = [NoObs EXCEPT !.op = "scan", !.events = r.events, !.arg = cwd]
  /\ UNCHANGED <<hostFolders, fsDirs, fsFiles, wf, count, serviceVars>>

\* a directory appears on disk, with or without a compilation database in it
FsCreateDirAct(dir, withDb) ==
  /\ count.fsEvents < MaxFsEvents
  /\ dir \notin fsDirs
  /\ fsDirs' = fsDirs \cup {dir}
  /\ fsFiles' = IF withDb THEN fsFiles \cup {DbOf(dir)} ELSE fsFiles
  /\ LET r == CMwatchers(cm.subscriptions, cm, fsFiles', "create", dir)
     IN  /\ cm' = r.cm
         /\ obs' = [NoObs EXCEPT !.op = "createDir", !.events = r.events, !.arg = dir]
  /\ count' = [count EXCEPT !.fsEvents = @ + 1]
  /\ UNCHANGED <<hostFolders, wf, scans, serviceVars>>

\* a directory is deleted with what it contains
FsDeleteDirAct(dir) ==
  /\ count.fsEvents < MaxFsEvents
  /\ dir \in fsDirs
  /\ fsDirs' = fsDirs \ {dir}
  /\ fsFiles' = fsFiles \ {DbOf(dir)}
  /\ LET r == CMwatchers(cm.subscriptions, cm, fsFiles', "delete", dir)
     IN  /\ cm' = r.cm
         /\ obs' = [NoObs EXCEPT !.op = "deleteDir", !.events = r.events, !.arg = dir]
  /\ count' = [count EXCEPT !.fsEvents = @ + 1]
  /\ UNCHANGED <<hostFolders, wf, scans, serviceVars>>

\* compile_commands.json is written into an existing directory
FsCreateFileAct(dir) ==
  /\ count.fsEvents < MaxFsEvents
  /\ dir \in fsDirs
  /\ DbOf(dir) \notin fsFiles
  /\ fsFiles' = fsFiles \cup {DbOf(dir)}
  /\ LET r == CMwatchers(cm.subscriptions, cm, fsFiles', "create", DbOf(dir))
     IN  /\ cm' = r.cm
         /\ obs' = [NoObs EXCEPT !.op = "createFile", !.events = r.events, !.arg = dir]
  /\ count' = [count EXCEPT !.fsEvents = @ + 1]
  /\ UNCHANGED <<hostFolders, fsDirs, wf, scans, serviceVars>>

\* compile_commands.json alone is deleted
FsDeleteFileAct(dir) ==
  /\ count.fsEvents < MaxFsEvents
  /\ DbOf(dir) \in fsFiles
  /\ fsFiles' = fsFiles \ {DbOf(dir)}
  /\ LET r == CMwatchers(cm.subscriptions, cm, fsFiles', "delete", DbOf(dir))
     IN  /\ cm' = r.cm
         /\ obs' = [NoObs EXCEPT !.op = "deleteFile", !.events = r.events, !.arg = dir]
  /\ count' = [count EXCEPT !.fsEvents = @ + 1]
  /\ UNCHANGED <<hostFolders, fsDirs, wf, scans, serviceVars>>

CMDisposeAct ==
  /\ cm.disposes < MaxDispose
  /\ cm.inits > 0
  /\ cm' = CMdispose(cm)
  /\ obs' = [NoObs EXCEPT !.op = "dispose"]
  /\ UNCHANGED <<hostFolders, fsDirs, fsFiles, wf, scans, count, serviceVars>>

NextCM ==
  \/ CMInitializeAct
  \/ \E k \in 1..Len(scans) : CMScanAct(k)
  \/ \E d \in Range(DirUniverse), withDb \in BOOLEAN : FsCreateDirAct(d, withDb)
  \/ \E d \in Range(DirUniverse) : FsDeleteDirAct(d)
  \/ \E d \in Range(DirUniverse) : FsCreateFileAct(d)
  \/ \E d \in Range(DirUniverse) : FsDeleteFileAct(d)
  \/ CMDisposeAct

SpecCM == InitCM /\ [][NextCM]_vars

-----------------------------------------------------------------------------
(* Properties of the build-directory strategy *)

\* the directory a path lies in
Parent(path) ==
  LET q == StripTrailingSlashes(path)
  IN  SubSeq(q, 1, LastIndexOf(q, Slash))

\* the projects the step pushed
Pushed == SubSeq(cm'.projects, Len(cm.projects) + 1, Len(cm'.projects))

RootsPushed == {Pushed[i].uri : i \in 1..Len(Pushed)}

NamedBuild(dir) == Basename(dir) = BuildName

\* C10: a directory named build with compile_commands.json directly inside
\* it yields a project rooted at the parent of the build directory, a build
\* directory without the file yields none, and deleting compile_commands.json
\* alone leaves the projects list unchanged and emits no ProjectsChange.
C10_BuildDirYieldsParent ==
  [][/\ obs'.op = "scan" =>
          /\ Len(cm'.projects) >= Len(cm.projects)
          /\ \A d \in fsDirs :
               (NamedBuild(d) /\ PathContains(obs'.arg, d)) =>
                 (Parent(d) \in RootsPushed <=> DbOf(d) \in fsFiles)
     /\ (obs'.op = "createDir" /\ cm.subscriptions > 0 /\ NamedBuild(obs'.arg)) =>
          /\ Len(cm'.projects) >= Len(cm.projects)
          /\ Parent(obs'.arg) \in RootsPushed <=> DbOf(obs'.arg) \in fsFiles'
     /\ obs'.op = "deleteFile" =>
          /\ cm'.projects = cm.projects
          /\ obs'.events = <<>>
          /\ fsDirs' = fsDirs
    ]_vars

\* a project of /a was found by the scan, and then the compilation database
\* of /a/build alone has been deleted
C10_Witness ==
  /\ obs.op = "deleteFile"
  /\ obs.arg = PA \o SlashBuild
  /\ obs.arg \in fsDirs
  /\ DbOf(obs.arg) \notin fsFiles
  /\ \E i \in 1..Len(cm.projects) : cm.projects[i].uri = PA
  /\ cm.subscriptions > 0

\* C21: a build-directory strategy that has been disposed emits no
\* ProjectsChange: no step taken after dispose() has returned fires an event
C21_NoEventAfterDispose ==
  (cm.disposed /\ obs.op # "dispose") => obs.events = <<>>

\* C11: when the watcher has reported the deletion of a build directory and
\* no other directory on disk has the same parent, the projects list holds
\* no project rooted at that parent and resolve() returns none for a file
\* under it
C11_DeletedBuildDirRemoved ==
  ( /\ obs.op = "deleteDir"
    /\ cm.subscriptions > 0
    /\ NamedBuild(obs.arg)
    /\ \A d \in fsDirs : Parent(d) # Parent(obs.arg) )
  => /\ \A i \in 1..Len(cm.projects) : cm.projects[i].uri # Parent(obs.arg)
     /\ CMresolve(cm, Parent(obs.arg) \o FileName) = NoProject

-----------------------------------------------------------------------------
(* ClangdProjectService *)

ExtIds == {"ext.a", "ext.b"}

StrategyIds == {WorkspaceFolderStrategyID, CmakeProjectStrategyID} \cup ExtIds

NoStrategy == "undefined"

\* ProjectConfiguration.defaultStrategy()
DefaultStrategy == WorkspaceFolderStrategyID

\* the projects of a strategy another extension registers: one project each
ExtProjects(sid) ==
  IF sid = "ext.a" THEN <<MkProject(sid, 1, PB)>> ELSE <<MkProject(sid, 1, PA)>>

\* the state after the constructor: the strategy ids that other extensions
\* declare are pending
SvcNew(declared) ==
  [strategies |-> {}, declared |-> declared, pending |-> declared, ready |-> FALSE,
   activeStrategy |-> NoStrategy, currentProject |-> NoProject, isEnabled |-> FALSE,
   forwarders |-> [sid \in StrategyIds |-> 0],
   instance |-> [sid \in StrategyIds |-> 0], phase |-> "new"]

CtxNew ==
  [exists |-> FALSE, subscriptions |-> 0, projectListeners |-> 0, clients |-> <<>>,
   outputChannels |-> {}, unmatchedDocuments |-> <<>>, override |-> NoProject,
   disposes |-> 0]

\* everything a handler can change
World ==
  [svc |-> svc, wf |-> wf, cm |-> cm, ext |-> ext, scans |-> scans, ctx |-> ctx,
   tasks |-> tasks]

StrategyProjects(W, sid) ==
  IF sid = WorkspaceFolderStrategyID THEN W.wf.projects
  ELSE IF sid = CmakeProjectStrategyID THEN W.cm.projects
  ELSE IF sid \in ExtIds THEN (IF W.ext[sid].gone THEN <<>> ELSE ExtProjects(sid))
  ELSE <<>>

\* this._activeStrategy?.resolve(fileUri)
StrategyResolve(W, fileUri) ==
  IF W.svc.activeStrategy = NoStrategy THEN NoProject
  ELSE ResolveIn(StrategyProjects(W, W.svc.activeStrategy), fileUri)

-----------------------------------------------------------------------------
(* ClangdContext: the client registry *)

FallbackId == <<"none">>
StarId == <<"*">>

KeyOf(project) == IF project = NoProject THEN FallbackId ELSE project.id

\* files of a language clangd serves; the others are ignored by the handlers
IsClangdDocument(uri) == Basename(uri) # <<"t">>

getActiveProject(W) ==
  IF W.ctx.override # NoProject THEN W.ctx.override ELSE W.svc.currentProject

\* getClientOptions(project): the document filter of a new client and its
\* output channel
getClientOptions(W, project) ==
  [root |-> IF project # NoProject THEN project.uri ELSE NoUri,
   docs |-> IF project = NoProject \/ getActiveProject(W) = project
            THEN {W.ctx.unmatchedDocuments[i].uri : i \in 1..Len(W.ctx.unmatchedDocuments)}
            ELSE {},
   channel |-> KeyOf(project)]

\* this.clients.set(key, client): the entry that was there stays what it
\* was, only the registry no longer knows it
setClient(clients, key, options) ==
  LET kept == SelectSeq(clients, LAMBDA c : ~(c.inMap /\ c.key = key /\ ~c.live))
      unset == [i \in 1..Len(kept) |->
                  IF kept[i].inMap /\ kept[i].key = key
                  THEN [kept[i] EXCEPT !.inMap = FALSE] ELSE kept[i]]
  IN  Append(unset, [key |-> key, root |-> options.root, docs |-> options.docs,
                     inMap |-> TRUE, live |-> TRUE])

\* createClient(project, serverOptions): a new client is made, registered
\* under the project's id (or the fallback id) and started
createClient(W, project) ==
  LET options == getClientOptions(W, project)
  IN  [W EXCEPT !.ctx.clients = setClient(@, KeyOf(project), options),
                !.ctx.outputChannels = @ \cup {options.channel}]

\* disposeClient(id)
disposeClient(W, id) ==
  [W EXCEPT !.ctx.clients = SelectSeq(@, LAMBDA c : ~(c.inMap /\ c.key = id))]

\* this.clients.get(id)?.dispose(): the entry stays in the registry
disposeInPlace(W, id) ==
  [W EXCEPT !.ctx.clients =
     [i \in 1..Len(@) |-> IF @[i].inMap /\ @[i].key = id
                          THEN [@[i] EXCEPT !.live = FALSE] ELSE @[i]]]

Includes(list, x) == \E i \in 1..Len(list) : list[i] = x

\* the listener that activate() gives to projectService.onProjectsChanged
ctxOnProjectsChanged(W, change) ==
  IF W.ctx.override = NoProject THEN W
  ELSE IF Includes(change.removed, W.ctx.override)
  THEN [disposeInPlace(W, W.ctx.override.id) EXCEPT !.ctx.override = NoProject]
  ELSE IF Includes(change.updated, W.ctx.override)
  THEN createClient(disposeInPlace(W, W.ctx.override.id), W.ctx.override)
  ELSE W

\* the setter of activeProjectOverride
setActiveProjectOverride(W, project) ==
  LET oldActiveProject == W.ctx.override
      w1 == [W EXCEPT !.ctx.override = project]
      w2 == IF oldActiveProject # NoProject
            THEN createClient(disposeClient(w1, oldActiveProject.id), oldActiveProject)
            ELSE w1
  IN  IF project # NoProject
      THEN createClient(disposeClient(w2, project.id), project)
      ELSE w2

\* dispose(): the subscriptions, the registered clients and the channels
ctxDispose(W) ==
  [W EXCEPT !.ctx.subscriptions = 0,
            !.ctx.disposes = @ + 1,
            !.ctx.clients = SelectSeq(@, LAMBDA c : ~c.inMap),
            !.ctx.outputChannels = {}]

LiveClients(c) == {i \in 1..Len(c.clients) : c.clients[i].live}

\* the document filter of a client matches the document
Covers(client, uri) ==
  \/ /\ client.root # NoUri
     /\ IsClangdDocument(uri)
     /\ StartsWith(uri, IF client.root = Slash THEN Slash ELSE client.root \o Slash)
     /\ uri # client.root \o Slash
  \/ uri \in client.docs

-----------------------------------------------------------------------------
(* ClangdProjectService: operations *)

\* the service forwards a ProjectsChange of a strategy once per subscription
\* it made on that strategy, and every listener of the context handles it
RECURSIVE ctxListeners(_, _, _)
ctxListeners(n, W, change) ==
  IF n = 0 THEN W
  ELSE TheOne({ctxListeners(n - 1, w1, change) : w1 \in {ctxOnProjectsChanged(W, change)}})

RECURSIVE FireProjectsChanged(_, _, _)
FireProjectsChanged(W, sid, events) ==
  IF events = <<>> THEN W
  ELSE TheOne({FireProjectsChanged(w1, sid, Tail(events)) :
                 w1 \in {ctxListeners(W.svc.forwarders[sid] * W.ctx.projectListeners,
                                      W, Head(events))}})

\* a variant in which any new registration opens the gate
registerStrategyMutant(W, sid, inst) ==
  IF sid \notin W.svc.strategies
  THEN [w |-> [W EXCEPT !.svc.strategies = @ \cup {sid},
                        !.svc.instance[sid] = inst,
                        !.svc.pending = @ \ {sid},
                        !.svc.ready = TRUE],
        ok |-> TRUE]
  ELSE [w |-> W, ok |-> FALSE]

\* a variant that stores the new instance under an id that is registered
registerStrategyOverwrite(W, sid, inst) ==
  IF sid \notin W.svc.strategies
  THEN [w |-> [W EXCEPT !.svc.strategies = @ \cup {sid},
                        !.svc.instance[sid] = inst,
                        !.svc.pending = @ \ {sid},
                        !.svc.ready = @ \/ (W.svc.pending # {} /\ W.svc.pending \ {sid} = {})],
        ok |-> TRUE]
  ELSE [w |-> [W EXCEPT !.svc.instance[sid] = inst], ok |-> FALSE]

\* registerStrategy(strategy): strategy is the instance inst with the id sid;
\* ok is the value returned
registerStrategy(W, sid, inst) ==
  IF sid \notin W.svc.strategies
  THEN [w |-> [W EXCEPT !.svc.strategies = @ \cup {sid},
                        !.svc.instance[sid] = inst,
                        !.svc.pending = @ \ {sid},
                        !.svc.ready = @ \/ (W.svc.pending # {} /\ W.svc.pending \ {sid} = {})],
        ok |-> TRUE]
  ELSE [w |-> W, ok |-> FALSE]

\* strategy.dispose() of the strategy with the id sid
disposeStrategy(W, sid) ==
  IF sid = WorkspaceFolderStrategyID THEN [W EXCEPT !.wf = WFdispose(@)]
  ELSE IF sid = CmakeProjectStrategyID THEN [W EXCEPT !.cm = CMdispose(@)]
  ELSE [W EXCEPT !.ext[sid].disposed = TRUE]

\* unregisterStrategy(id): ok is the value returned, reset tells that
\* ProjectConfiguration.resetStrategy() was called
unregisterStrategy(W, sid) ==
  IF sid \in W.svc.strategies
  THEN [w |-> disposeStrategy([W EXCEPT !.svc.strategies = @ \ {sid},
                                       !.svc.instance[sid] = 0], sid),
        ok |-> TRUE, reset |-> W.svc.activeStrategy = sid]
  ELSE [w |-> W, ok |-> FALSE, reset |-> FALSE]

\* strategy.initialize() up to its first suspension.  wait tells what the
\* caller's await waits for: a tick (the call completed), or the scan
initializeStrategy(W, sid) ==
  IF sid = WorkspaceFolderStrategyID
  THEN LET r == WFinitialize(W.wf, hostFolders)
       IN  [w |-> FireProjectsChanged([W EXCEPT !.wf = r.wf], sid, r.events),
            wait |-> "upd", scan |-> 0]
  ELSE IF sid = CmakeProjectStrategyID
  THEN LET r == CMinitialize(W.cm, hostFolders)
       IN  [w |-> [W EXCEPT !.cm = r.cm, !.scans = @ \o r.scan],
            wait |-> IF r.scan = <<>> THEN "upd" ELSE "scan",
            scan |-> IF r.scan = <<>> THEN 0 ELSE r.scan[1].id]
  ELSE [w |-> [W EXCEPT !.ext[sid].inits = @ + 1], wait |-> "upd", scan |-> 0]

\* updateActiveStrategy(validate) up to its await
updateActiveStrategy(W, strategyId, validate) ==
  IF strategyId \in W.svc.strategies
  THEN IF strategyId = W.svc.activeStrategy
       THEN [w |-> W, wait |-> "res", scan |-> 0]
       ELSE initializeStrategy(
              [W EXCEPT !.svc.activeStrategy = strategyId,
                        !.svc.forwarders[strategyId] = @ + 1], strategyId)
  ELSE IF validate
  THEN [w |-> [W EXCEPT !.svc.activeStrategy =
                 IF DefaultStrategy \in W.svc.strategies THEN DefaultStrategy
                 ELSE NoStrategy],
        wait |-> "res", scan |-> 0]
  ELSE [w |-> W, wait |-> "res", scan |-> 0]

NoTask == [k |-> "none", doc |-> [uri |-> <<>>, gen |-> 0], upd |-> FALSE,
           at |-> "done", res |-> NoProject, scan |-> 0, session |-> 0]

\* the end of resolve(): the active strategy is asked, the current project
\* is updated
resolveBody(W, t) ==
  LET newProject == StrategyResolve(W, t.doc.uri)
      update == newProject # NoProject /\ t.upd
  IN  [w |-> IF update THEN [W EXCEPT !.svc.currentProject = newProject] ELSE W,
       task |-> [t EXCEPT !.at = "ret", !.res = newProject],
       fired |-> update /\ W.svc.currentProject # newProject]

\* a variant without the isEnabled test
resolveGateMutant(W, cfg, t) ==
  IF W.svc.activeStrategy = NoStrategy
  THEN LET u == updateActiveStrategy(W, cfg.strategy, TRUE)
       IN  [w |-> u.w, task |-> [t EXCEPT !.at = u.wait, !.scan = u.scan],
            fired |-> FALSE]
  ELSE resolveBody(W, t)

\* resolve() from the readiness gate on
resolveGate(W, cfg, t) ==
  IF ~W.svc.isEnabled
  THEN [w |-> W, task |-> [t EXCEPT !.at = "ret", !.res = NoProject], fired |-> FALSE]
  ELSE IF W.svc.activeStrategy = NoStrategy
  THEN LET u == updateActiveStrategy(W, cfg.strategy, TRUE)
       IN  [w |-> u.w, task |-> [t EXCEPT !.at = u.wait, !.scan = u.scan],
            fired |-> FALSE]
  ELSE resolveBody(W, t)

\* initialize() of the service up to its await
svcInitialize(W, cfg) ==
  LET w1 == registerStrategy(registerStrategy(W, WorkspaceFolderStrategyID, 1).w,
                             CmakeProjectStrategyID, 1).w
      w2 == [w1 EXCEPT !.svc.isEnabled = cfg.enabled, !.svc.phase = "initializing"]
  IN  IF cfg.enabled THEN updateActiveStrategy(w2, cfg.strategy, FALSE)
      ELSE [w |-> w2, wait |-> "res", scan |-> 0]

\* the end of initialize(): the gate opens when no declared id is pending;
\* then activate() of the extension makes the context and activates it
svcInitializeEnd(W) ==
  [W EXCEPT !.svc.ready = @ \/ W.svc.pending = {},
            !.svc.phase = "initialized",
            !.ctx.exists = TRUE]

-----------------------------------------------------------------------------
(* ClangdContext: handlers *)

\* session is the number of dispose() calls the context had seen when the
\* handler was called
OpenTask(doc, session) ==
  [NoTask EXCEPT !.k = "open", !.doc = doc, !.upd = TRUE, !.at = "gate",
                 !.session = session]
CloseTask(doc) == [NoTask EXCEPT !.k = "close", !.doc = doc, !.at = "gate"]

\* didOpenTextDocument up to its await, for every document of the list
didOpenAll(docs, session) ==
  LET clangd == SelectSeq(docs, LAMBDA d : IsClangdDocument(d.uri))
  IN  [i \in 1..Len(clangd) |-> OpenTask(clangd[i], session)]

\* didOpenTextDocument after resolve() has returned project
didOpenTextDocument(W, document, project) ==
  IF project = NoProject
  THEN LET activeProject == getActiveProject(W)
           w1 == IF Includes(W.ctx.unmatchedDocuments, document) THEN W
                 ELSE [W EXCEPT !.ctx.unmatchedDocuments = Append(@, document)]
       IN  createClient(disposeClient(w1, KeyOf(activeProject)), activeProject)
  ELSE createClient(W, project)

\* Array.prototype.splice(index) with the index indexOf gives: the guard
\* index < -1 is what the code tests
pruneUnmatched(list, document) ==
  LET hits == {i \in 1..Len(list) : list[i] = document}
      index == IF hits = {} THEN -1 ELSE (CHOOSE i \in hits : \A j \in hits : i <= j) - 1
  IN  IF index < -1 THEN SubSeq(list, 1, Len(list) + index) ELSE list

\* didCloseTextDocument after resolve() has returned project; docs are the
\* documents open now
didCloseTextDocument(W, docs, document, project) ==
  IF project = NoProject
  THEN [W EXCEPT !.ctx.unmatchedDocuments = pruneUnmatched(@, document)]
  ELSE IF project = W.ctx.override THEN W
  ELSE IF \E i \in 1..Len(docs) :
            StartsWith(UriToString(docs[i].uri), UriToString(project.uri))
  THEN W
  ELSE disposeClient(W, project.id)

\* activate() after install.activate() has answered; docs are the documents
\* open now
ctxActivate(W, docs) ==
  IF W.svc.isEnabled
  THEN [W EXCEPT !.ctx.subscriptions = @ + 1,
                 !.ctx.projectListeners = @ + 1,
                 !.tasks = @ \o didOpenAll(docs, W.ctx.disposes)]
  ELSE LET options == getClientOptions(W, NoProject)
       IN  [W EXCEPT !.ctx.clients = setClient(@, StarId, options),
                     !.ctx.outputChannels = @ \cup {options.channel}]

\* the command clangd.restart up to the await of install.activate()
restart(W) ==
  IF W.ctx.exists
  THEN [ctxDispose(W) EXCEPT !.tasks = Append(@, [NoTask EXCEPT !.k = "activate", !.at = "install"])]
  ELSE W

\* handleConfigurationChange(event)
handleConfigurationChange(W, cfg, affectsEnabled, affectsStrategy) ==
  IF affectsEnabled
  THEN restart([W EXCEPT !.svc.isEnabled = cfg.enabled])
  ELSE IF affectsStrategy
  THEN restart(updateActiveStrategy(W, cfg.strategy, TRUE).w)
  ELSE W

-----------------------------------------------------------------------------
(* The extension: Spec *)

DocUniverse == {PA \o FileName, PA \o <<"/", "y">>, PZ \o FileName}

\* the documents that are open when the extension is activated
InitialDocs ==
  {<<>>, <<[uri |-> PA \o FileName, gen |-> 0]>>,
   <<[uri |-> PA \o FileName, gen |-> 0], [uri |-> PA \o <<"/", "y">>, gen |-> 0]>>}

\* what other extensions ask the service about
CallUniverse == {PB \o FileName}

\* the contributed strategy ids found in the package.json of other extensions
Declarations == {{}, {"ext.a"}}

\* the ids another extension passes to unregisterStrategy
UnregisterChoices == {WorkspaceFolderStrategyID, "ext.a"}

StrategyChoices == {WorkspaceFolderStrategyID, CmakeProjectStrategyID, "ext.a"}

Init ==
  /\ hostFolders = <<PA, PB, PAS>>
  /\ fsDirs = {PA \o SlashBuild}
  /\ fsFiles = {DbOf(PA \o SlashBuild)}
  /\ wf = WFNew
  /\ cm = CMNew
  /\ scans = <<>>
  /\ ext = [sid \in ExtIds |-> [inits |-> 0, disposed |-> FALSE, gone |-> FALSE]]
  /\ config \in [enabled : BOOLEAN, strategy : StrategyChoices]
  /\ openDocs \in InitialDocs
  /\ \E declared \in Declarations : svc = SvcNew(declared)
  /\ ctx = CtxNew
  /\ tasks = <<>>
  /\ hist = [registered |-> {}, failed |-> {}, notify |-> FALSE]
  /\ count = NoCount
  /\ obs = NoObs

Assign(W) ==
  /\ svc' = W.svc
  /\ wf' = W.wf
  /\ cm' = W.cm
  /\ ext' = W.ext
  /\ scans' = W.scans
  /\ ctx' = W.ctx
  /\ tasks' = W.tasks

hostVars == <<hostFolders, fsDirs, fsFiles>>

\* a suspended call that the microtask queue will run: it waits for nothing
\* but its turn (the gate counts once it is open)
Runnable(t) == t.at \in {"upd", "res", "ret"} \/ (t.at = "gate" /\ svc.ready)

\* the host delivers an event to the activated extension only when no
\* microtask is left
Quiet == \A i \in 1..Len(tasks) : ~Runnable(tasks[i])

\* the calls of install.activate() that have not answered yet
Installing == {i \in 1..Len(tasks) : tasks[i].at = "install"}

RemoveAt(list, i) == SubSeq(list, 1, i - 1) \o SubSeq(list, i + 1, Len(list))

HostEvent ==
  /\ svc.phase # "new"
  /\ Quiet
  /\ count.events < MaxEvents
  /\ count' = [count EXCEPT !.events = @ + 1]

\* activate() of the extension: the service is initialized
BootAct ==
  /\ svc.phase = "new"
  /\ LET r == svcInitialize(World, config)
     IN  Assign([r.w EXCEPT !.tasks = Append(@, [NoTask EXCEPT !.k = "boot", !.at = r.wait,
                                                            !.scan = r.scan])])
  /\ obs' = [NoObs EXCEPT !.op = "boot"]
  /\ UNCHANGED <<hostVars, config, openDocs, hist, count>>

\* what the first task of the microtask queue does, and what is left of it
StepTask(W, t) ==
  IF t.k = "boot"
  THEN [w |-> svcInitializeEnd(W),
        task |-> [NoTask EXCEPT !.k = "bootActivate", !.at = "install"], fired |-> FALSE]
  ELSE IF t.at = "gate" THEN resolveGate(W, config, t)
  ELSE IF t.at = "upd" THEN [w |-> W, task |-> [t EXCEPT !.at = "res"], fired |-> FALSE]
  ELSE IF t.at = "res" THEN resolveBody(W, t)
  ELSE [w |-> IF t.k = "open" THEN didOpenTextDocument(W, t.doc, t.res)
              ELSE IF t.k = "close" THEN didCloseTextDocument(W, openDocs, t.doc, t.res)
              ELSE IF t.k = "pick" THEN setActiveProjectOverride(W, t.res)
              ELSE W,
        task |-> NoTask, fired |-> FALSE]

\* only the handlers of the context go on after resolve() has returned
Continues(t) == t.k # "none" /\ ~(t.at = "ret" /\ t.k \in {"focus", "call"})

FirstRunnable == CHOOSE i \in 1..Len(tasks) :
                   Runnable(tasks[i]) /\ \A j \in 1..(i - 1) : ~Runnable(tasks[j])

RunTaskAct ==
  /\ ~Quiet
  /\ Cardinality(LiveClients(ctx)) < MaxClients
  /\ LET i == FirstRunnable
         t == tasks[i]
         r == StepTask([World EXCEPT !.tasks = RemoveAt(@, i)], t)
     IN  /\ Assign(IF Continues(r.task) THEN [r.w EXCEPT !.tasks = Append(@, r.task)]
                   ELSE r.w)
         /\ obs' = [NoObs EXCEPT !.op = t.at, !.kind = t.k, !.arg = t.doc.uri,
                                 !.upd = t.upd, !.session = t.session,
                                 !.result = IF t.at = "ret" THEN t.res ELSE r.task.res,
                                 !.returned = (t.at \in {"gate", "res"} /\ r.task.at = "ret"),
                                 !.fired = r.fired]
  /\ UNCHANGED <<hostVars, config, openDocs, hist, count>>

\* install.activate() answers and activate() of the context goes on
InstallDoneAct(i) ==
  /\ Quiet
  /\ i \in 1..Len(tasks)
  /\ tasks[i].at = "install"
  /\ Cardinality(LiveClients(ctx)) < MaxClients
  /\ LET w == ctxActivate([World EXCEPT !.tasks = RemoveAt(@, i)], openDocs)
     IN  Assign(IF tasks[i].k = "bootActivate" THEN [w EXCEPT !.svc.phase = "done"] ELSE w)
  /\ obs' = [NoObs EXCEPT !.op = "activate", !.kind = tasks[i].k]
  /\ UNCHANGED <<hostVars, config, openDocs, hist, count>>

\* the glob of suspended findProjects() call k answers; when it was the last
\* folder, the calls that await this initialize() go on
ScanAct(k) ==
  /\ Quiet
  /\ k \in 1..Len(scans)
  /\ LET sc == scans[k]
         cwd == sc.folders[sc.next]
         r == CMfindProjectsStep(cm, fsDirs, fsFiles, cwd)
         last == sc.next = Len(sc.folders)
         w1 == [World EXCEPT !.cm = r.cm,
                             !.scans = IF last THEN RemoveAt(@, k)
                                       ELSE [@ EXCEPT ![k].next = @ + 1]]
         w2 == FireProjectsChanged(w1, CmakeProjectStrategyID, r.events)
         waiting(t) == t.at = "scan" /\ t.scan = sc.id
         woken == SelectSeq(w2.tasks, waiting)
     IN  /\ Assign(IF last
                   THEN [w2 EXCEPT !.tasks =
                           SelectSeq(@, LAMBDA t : ~waiting(t)) \o
                           [j \in 1..Len(woken) |-> [woken[j] EXCEPT !.at = "upd"]]]
                   ELSE w2)
         /\ obs' = [NoObs EXCEPT !.op = "scan", !.events = r.events, !.arg = cwd]
  /\ UNCHANGED <<hostVars, config, openDocs, hist, count>>

\* the host opens a document: every subscription of the context handles it
OpenDocAct(uri) ==
  /\ HostEvent
  /\ \A i \in 1..Len(openDocs) : openDocs[i].uri # uri
  /\ LET document == [uri |-> uri, gen |-> count.events + 1]
     IN  /\ openDocs' = Append(openDocs, document)
         /\ tasks' = tasks \o
              IF IsClangdDocument(uri)
              THEN [i \in 1..ctx.subscriptions |-> OpenTask(document, ctx.disposes)]
              ELSE <<>>
  /\ obs' = [NoObs EXCEPT !.op = "open", !.arg = uri]
  /\ UNCHANGED <<hostVars, wf, cm, scans, ext, config, svc, ctx, hist>>

\* the host closes a document: every live client whose filter matches it
\* calls its didClose middleware
CloseDocAct(i) ==
  /\ HostEvent
  /\ i \in 1..Len(openDocs)
  /\ LET document == openDocs[i]
         notified == SelectSeq(ctx.clients, LAMBDA c : c.live /\ Covers(c, document.uri))
     IN  /\ openDocs' = RemoveAt(openDocs, i)
         /\ tasks' = tasks \o
              IF IsClangdDocument(document.uri)
              THEN [j \in 1..Len(notified) |-> CloseTask(document)]
              ELSE <<>>
         /\ obs' = [NoObs EXCEPT !.op = "close", !.arg = document.uri]
  /\ UNCHANGED <<hostVars, wf, cm, scans, ext, config, svc, ctx, hist>>

\* the active editor changes to an open document
FocusAct(i) ==
  /\ HostEvent
  /\ svc.phase # "new"
  /\ i \in 1..Len(openDocs)
  /\ tasks' = Append(tasks, [NoTask EXCEPT !.k = "focus", !.doc = openDocs[i],
                                            !.upd = TRUE, !.at = "gate"])
  /\ obs' = [NoObs EXCEPT !.op = "focus", !.arg = openDocs[i].uri]
  /\ UNCHANGED <<hostVars, wf, cm, scans, ext, config, openDocs, svc, ctx, hist>>

\* another extension calls resolve() of the service it got from activate()
ApiResolveAct(uri, updateCurrent) ==
  /\ HostEvent
  /\ svc.phase = "done"
  /\ tasks' = Append(tasks, [NoTask EXCEPT !.k = "call", !.doc = [uri |-> uri, gen |-> 0],
                                            !.upd = updateCurrent, !.at = "gate"])
  /\ obs' = [NoObs EXCEPT !.op = "call", !.arg = uri, !.upd = updateCurrent]
  /\ UNCHANGED <<hostVars, wf, cm, scans, ext, config, openDocs, svc, ctx, hist>>

\* the command clangd.change.activeProjectOverride with a project of the
\* active strategy picked
PickAct(i) ==
  /\ HostEvent
  /\ svc.phase = "done"
  /\ svc.activeStrategy # NoStrategy
  /\ i \in 1..Len(StrategyProjects(World, svc.activeStrategy))
  /\ LET detail == StrategyProjects(World, svc.activeStrategy)[i].id
     IN  /\ tasks' = Append(tasks, [NoTask EXCEPT !.k = "pick",
                                      !.doc = [uri |-> UriParse(detail), gen |-> 0],
                                      !.upd = TRUE, !.at = "gate"])
         /\ obs' = [NoObs EXCEPT !.op = "pick", !.arg = UriParse(detail)]
  /\ UNCHANGED <<hostVars, wf, cm, scans, ext, config, openDocs, svc, ctx, hist>>

\* a setting changes and onDidChangeConfiguration is delivered
ConfigChangeAct(cfg) ==
  /\ HostEvent
  /\ svc.phase # "new"
  /\ cfg # config
  /\ Cardinality(Installing) < MaxInstalls
  /\ config' = cfg
  /\ Assign(handleConfigurationChange(World, cfg, cfg.enabled # config.enabled,
                                      cfg.strategy # config.strategy))
  /\ obs' = [NoObs EXCEPT !.op = "config"]
  /\ UNCHANGED <<hostVars, openDocs, hist>>

\* the user runs the command clangd.restart
RestartAct ==
  /\ HostEvent
  /\ ctx.exists
  /\ Cardinality(Installing) < MaxInstalls
  /\ Assign(restart(World))
  /\ obs' = [NoObs EXCEPT !.op = "restart"]
  /\ UNCHANGED <<hostVars, config, openDocs, hist>>

\* vscode.extensions.onDidChange with every extension active
ExtensionsChangedAct ==
  /\ HostEvent
  /\ hist.failed = {}
  /\ Assign(updateActiveStrategy(World, config.strategy, TRUE).w)
  /\ obs' = [NoObs EXCEPT !.op = "extensions"]
  /\ UNCHANGED <<hostVars, config, openDocs, hist>>

\* another extension calls registerStrategy: the first call for an id brings
\* instance 1, any other call a second instance with an id that is taken
RegisterAct(sid) ==
  /\ HostEvent
  /\ svc.phase = "done"
  /\ sid \notin hist.failed
  /\ ~ext[sid].disposed
  /\ LET inst == IF sid \notin hist.registered THEN 1 ELSE 2
         r == registerStrategy(World, sid, inst)
     IN  /\ Assign(r.w)
         /\ obs' = [NoObs EXCEPT !.op = "register", !.sid = sid, !.inst = inst,
                                 !.ok = r.ok]
  /\ hist' = [hist EXCEPT !.registered = @ \cup {sid}]
  /\ UNCHANGED <<hostVars, config, openDocs>>

\* another extension calls unregisterStrategy(id).  resetStrategy() writes
\* the default id to the settings, and the host announces the change when the
\* value written differs from the one configured
UnregisterAct(sid) ==
  /\ svc.phase = "done"
  /\ Quiet
  /\ count.events < MaxEvents
  /\ count.unregisters < MaxUnregister
  /\ count' = [count EXCEPT !.events = @ + 1, !.unregisters = @ + 1]
  /\ LET r == unregisterStrategy(World, sid)
     IN  /\ Assign(r.w)
         /\ config' = IF r.reset THEN [config EXCEPT !.strategy = DefaultStrategy]
                       ELSE config
         /\ hist' = [hist EXCEPT !.notify = @ \/ (r.reset /\ config.strategy # DefaultStrategy)]
         /\ obs' = [NoObs EXCEPT !.op = "unregister", !.sid = sid, !.ok = r.ok]
  /\ UNCHANGED <<hostVars, openDocs>>

\* onDidChangeConfiguration for the strategy setting that resetStrategy() wrote
ConfigResetAct ==
  /\ hist.notify
  /\ Quiet
  /\ Cardinality(Installing) < MaxInstalls
  /\ Assign(handleConfigurationChange(World, config, FALSE, TRUE))
  /\ hist' = [hist EXCEPT !.notify = FALSE]
  /\ obs' = [NoObs EXCEPT !.op = "configReset"]
  /\ UNCHANGED <<hostVars, config, openDocs, count>>

\* the active strategy of another extension takes its project off its list
\* and announces it as removed, with the object it had listed
ExtChangeAct(sid) ==
  /\ svc.phase = "done"
  /\ Quiet
  /\ svc.activeStrategy = sid
  /\ ~ext[sid].gone
  /\ \E events \in {<<[NoChange EXCEPT !.removed = ExtProjects(sid)]>>} :
       /\ Assign(FireProjectsChanged([World EXCEPT !.ext[sid].gone = TRUE], sid, events))
       /\ obs' = [NoObs EXCEPT !.op = "extChange", !.sid = sid, !.events = events]
  /\ UNCHANGED <<hostVars, config, openDocs, hist, count>>

\* the extension that declared a strategy id fails to activate
ExtensionFailedAct(sid) ==
  /\ HostEvent
  /\ sid \in svc.declared
  /\ sid \notin hist.registered \cup hist.failed
  /\ hist' = [hist EXCEPT !.failed = @ \cup {sid}]
  /\ obs' = [NoObs EXCEPT !.op = "failed"]
  /\ UNCHANGED <<hostVars, wf, cm, scans, ext, config, openDocs, svc, ctx, tasks>>

\* the host adds or removes a workspace folder: every listener of the
\* folder-based strategy handles the event, and what it fires is forwarded
FoldersChangedAct(added, removed) ==
  /\ HostEvent
  /\ Len(added) + Len(removed) = 1
  /\ \E folders \in {SelectSeq(hostFolders, LAMBDA f : f \notin Range(removed)) \o added} :
     \E r \in {WFlisteners(wf.subscriptions, wf, folders, added, removed)} :
       /\ hostFolders' = folders
       /\ Assign(FireProjectsChanged([World EXCEPT !.wf = r.wf],
                                     WorkspaceFolderStrategyID, r.events))
       /\ obs' = [NoObs EXCEPT !.op = "foldersChanged", !.events = r.events,
                               !.threw = r.threw, !.added = added,
                               !.removed = removed]
  /\ UNCHANGED <<fsDirs, fsFiles, config, openDocs, hist>>

Next ==
  \/ BootAct
  \/ RunTaskAct
  \/ \E i \in 1..Len(tasks) : InstallDoneAct(i)
  \/ \E k \in 1..Len(scans) : ScanAct(k)
  \/ \E uri \in DocUniverse : OpenDocAct(uri)
  \/ \E i \in 1..Len(openDocs) : CloseDocAct(i)
  \/ \E i \in 1..Len(openDocs) : FocusAct(i)
  \/ \E i \in 1..3 : PickAct(i)
  \/ \E uri \in CallUniverse, updateCurrent \in BOOLEAN : ApiResolveAct(uri, updateCurrent)
  \/ \E cfg \in [enabled : BOOLEAN, strategy : StrategyChoices] : ConfigChangeAct(cfg)
  \/ RestartAct
  \/ ExtensionsChangedAct
  \/ \E sid \in ExtIds : RegisterAct(sid)
  \/ \E sid \in ExtIds : ExtensionFailedAct(sid)
  \/ \E sid \in UnregisterChoices : UnregisterAct(sid)
  \/ ConfigResetAct
  \/ \E sid \in ExtIds : ExtChangeAct(sid)
  \/ \E added \in AtMostOne({PAS} \ Range(hostFolders)),
        removed \in AtMostOne({PAS} \cap Range(hostFolders)) :
       FoldersChangedAct(added, removed)

Spec == Init /\ [][Next]_vars

-----------------------------------------------------------------------------
(* Properties of the extension *)

Client(i) == ctx.clients[i]

\* every handler has run to its end and no activation is under way
Settled == svc.phase = "done" /\ tasks = <<>>

OpenClangdDocs == {openDocs[i].uri : i \in {j \in 1..Len(openDocs) : IsClangdDocument(openDocs[j].uri)}}

\* C1: with multi-project support enabled, the context never has two live
\* clients that were made for the same project id, or both for the fallback
\* id
C1_OneLiveClientPerId ==
  config.enabled =>
    \A i, j \in LiveClients(ctx) :
      (Client(i).key = Client(j).key /\ Client(i).key # StarId) => i = j

\* C2: with multi-project support enabled and no handler suspended, every
\* open document of a supported language is covered by the document filter
\* of exactly one live client
C2_ExactlyOneCoveringClient ==
  (Settled /\ config.enabled) =>
    \A uri \in OpenClangdDocs :
      Cardinality({i \in LiveClients(ctx) : Covers(Client(i), uri)}) = 1

\* C3: when the close handler of a document has finished, the document
\* resolved to a project that is not the pinned override, and no open
\* document is left under the project's root, no client made for that
\* project is live
C3_NoClientWithoutDocuments ==
  ( /\ obs.op = "ret"
    /\ obs.kind = "close"
    /\ obs.result # NoProject
    /\ obs.result # ctx.override
    /\ \A uri \in OpenClangdDocs :
         ~StartsWith(UriToString(uri), UriToString(obs.result.uri)) )
  => \A i \in LiveClients(ctx) : Client(i).key # obs.result.id

ResolveKinds == {"open", "close", "focus", "pick", "call"}

\* C4: the gate is open only when no declared id is pending, the pending ids
\* are the declared ids not yet registered, and no call of resolve() is past
\* the gate or has returned while a declared id is unregistered
C4_NoResultWhilePending ==
  /\ svc.pending = svc.declared \ hist.registered
  /\ svc.ready => svc.pending = {}
  /\ (obs.op = "gate" \/ obs.returned) => svc.declared \subseteq hist.registered
  /\ \A i \in 1..Len(tasks) :
       (tasks[i].k \in ResolveKinds /\ tasks[i].at # "gate") =>
         svc.declared \subseteq hist.registered

\* a document that was open at activation is resolved after the declared
\* strategy has registered
C4_Witness ==
  /\ obs.returned
  /\ obs.kind = "open"
  /\ svc.declared # {}
  /\ count.events = 1

\* C5: when every declared id is registered or its extension has failed to
\* activate, and all that is left to run are calls of resolve() waiting at
\* the gate, the gate is open
C5_GateReleasedWhenSettled ==
  ( /\ svc.phase = "done"
    /\ svc.declared \subseteq (hist.registered \cup hist.failed)
    /\ tasks # <<>>
    /\ \A i \in 1..Len(tasks) : tasks[i].at = "gate" )
  => svc.ready

\* C6: a call of resolve() that passes the gate while multi-project support
\* is disabled returns undefined, changes no current project and fires no
\* event, whatever the location and updateCurrent
C6_DisabledResolvesUndefined ==
  (obs.op = "gate" /\ ~config.enabled) =>
    /\ obs.returned
    /\ obs.result = NoProject
    /\ ~obs.fired

\* the open handler subscribed while enabled calls resolve(uri, true), which
\* passes the gate while disabled, and the active strategy chosen while
\* enabled has a project that matches uri
C6_Witness ==
  /\ obs.op = "gate"
  /\ obs.kind = "open"
  /\ ~config.enabled
  /\ obs.upd
  /\ obs.returned
  /\ StrategyResolve(World, obs.arg) # NoProject

\* C7: with multi-project support disabled, once activated and with no
\* handler suspended, the context has exactly one live client
C7_OneClientWhenDisabled ==
  (Settled /\ ~config.enabled) => Cardinality(LiveClients(ctx)) = 1

\* C12: when the active strategy has announced the removal of a project in a
\* ProjectsChange that the context received, no project with the id of a
\* removed project is the pinned override
C12_RemovedOverrideCleared ==
  ( /\ obs.op = "foldersChanged"
    /\ svc.activeStrategy = WorkspaceFolderStrategyID
    /\ ctx.projectListeners > 0 )
  => \A k \in 1..Len(obs.events) : \A i \in 1..Len(obs.events[k].removed) :
       ctx.override.id # obs.events[k].removed[i].id


\* C14: a registerStrategy call with an id that is registered returns false and
\* leaves the service as it was (registry, instance under the id, pending ids,
\* gate, active strategy); with an id that is not registered it returns true
\* and the registry maps the id to the instance given
C14_DuplicateRegistrationRejected ==
  [][ obs'.op = "register" =>
        IF obs'.sid \in svc.strategies
        THEN /\ ~obs'.ok
             /\ svc' = svc
        ELSE /\ obs'.ok
             /\ svc'.strategies = svc.strategies \cup {obs'.sid}
             /\ svc'.instance = [svc.instance EXCEPT ![obs'.sid] = obs'.inst] ]_vars

\* a second instance has been offered under a registered id and rejected
C14_Witness ==
  /\ obs.op = "register"
  /\ ~obs.ok
  /\ obs.sid \in svc.strategies
  /\ svc.instance[obs.sid] # obs.inst


\* the strategy with the id sid has been disposed
Disposed(sid) ==
  IF sid = WorkspaceFolderStrategyID THEN wf.disposed
  ELSE IF sid = CmakeProjectStrategyID THEN cm.disposed
  ELSE sid \in ExtIds /\ ext[sid].disposed

\* C15: once unregisterStrategy has been called, every handler has completed
\* and no settings change is left to announce, the active strategy, if any,
\* is registered and not disposed
C15_ActiveStrategyRegistered ==
  ( /\ Settled
    /\ count.unregisters > 0
    /\ ~hist.notify
    /\ svc.activeStrategy # NoStrategy )
  => /\ svc.activeStrategy \in svc.strategies
     /\ ~Disposed(svc.activeStrategy)


\* C16: when a resolve() call returns from the active strategy while
\* multi-project support is enabled, then with updateCurrent set the current
\* project is the result, and CurrentProjectChange is fired exactly when the
\* result is not the project recorded before; without updateCurrent the
\* current project is left alone and nothing is fired
C16_CurrentProjectFollowsResult ==
  [][ (obs'.returned /\ svc.isEnabled) =>
        IF obs'.upd
        THEN /\ svc'.currentProject = obs'.result
             /\ obs'.fired = (svc.currentProject # obs'.result)
        ELSE /\ svc'.currentProject = svc.currentProject
             /\ ~obs'.fired ]_vars


\* C17: the current project follows the focused document only: no step of
\* the handler of a document-open event or of an override selection changes
\* the current project
C17_OnlyFocusSetsCurrentProject ==
  [][ obs'.kind \in {"open", "pick"} => svc'.currentProject = svc.currentProject ]_vars


\* the strategy whose listener or scan has just emitted ProjectsChange events
Emitter ==
  IF obs.op = "foldersChanged" THEN WorkspaceFolderStrategyID ELSE CmakeProjectStrategyID

\* C18: when a strategy has emitted a ProjectsChange, the service forwards it
\* once if the strategy is the active one and not at all if it is not: the
\* service holds one forwarding subscription on the active strategy and none
\* on any other
C18_ForwardedExactlyOnce ==
  (obs.op \in {"foldersChanged", "scan"} /\ obs.events # <<>>)
  => svc.forwarders[Emitter] = IF svc.activeStrategy = Emitter THEN 1 ELSE 0


\* C19: initialize() has been called at most once on every strategy instance
C19_InitializedAtMostOnce ==
  /\ wf.inits <= 1
  /\ cm.inits <= 1
  /\ \A sid \in ExtIds : ext[sid].inits <= 1


\* an initialize() call on the strategy with the id sid has run to its end:
\* every initialize() of the build-directory strategy runs one scan, which
\* leaves scans when it ends
InitializeCompleted(sid) ==
  IF sid = WorkspaceFolderStrategyID THEN wf.inits > 0
  ELSE IF sid = CmakeProjectStrategyID THEN cm.inits > Len(scans)
  ELSE sid \in ExtIds /\ ext[sid].inits > 0

\* C20: when a resolve() call has returned what the active strategy answered
\* while multi-project support is enabled, an initialize() call on that
\* strategy has completed
C20_ResolveAfterInitialize ==
  (obs.returned /\ svc.isEnabled /\ svc.activeStrategy # NoStrategy)
  => InitializeCompleted(svc.activeStrategy)


UnmatchedUris == {ctx.unmatchedDocuments[i].uri : i \in 1..Len(ctx.unmatchedDocuments)}

\* C22: with multi-project support enabled, no unmatched document is in the
\* document filters of two live clients: the client that served the
\* unmatched documents before is disposed when another one is made for them
C22_UnmatchedInOneFilter ==
  config.enabled =>
    \A uri \in UnmatchedUris :
      Cardinality({i \in LiveClients(ctx) : uri \in Client(i).docs}) <= 1


\* C23: when a document-open or document-close handler has completed, every
\* document in the unmatched-documents list is open in the editor, and no
\* document is in the list twice
C23_UnmatchedDocumentsOpen ==
  (obs.op = "ret" /\ obs.kind \in {"open", "close"}) =>
    /\ \A i \in 1..Len(ctx.unmatchedDocuments) :
         ctx.unmatchedDocuments[i] \in Range(openDocs)
    /\ \A i, j \in 1..Len(ctx.unmatchedDocuments) :
         ctx.unmatchedDocuments[i] = ctx.unmatchedDocuments[j] => i = j


\* C24: the context has at most one handler subscribed to document-open
\* events and at most one subscribed to the ProjectsChange stream of the
\* service, and none of either when the restart command has disposed it and
\* not yet activated it again
C24_NoDanglingSubscription ==
  /\ ctx.subscriptions <= 1
  /\ ctx.projectListeners <= 1
  /\ obs.op = "restart" => (ctx.subscriptions = 0 /\ ctx.projectListeners = 0)


\* C25: every configuration change that affects the enabled setting or the
\* strategy selection starts one restart: the registry of the context is
\* emptied and one more activation is under way
C25_ConfigChangeRestarts ==
  [][ obs'.op = "config" =>
        /\ Len(tasks') = Len(tasks) + 1
        /\ tasks'[Len(tasks')].k = "activate"
        /\ \A i \in 1..Len(ctx'.clients) : ~ctx'.clients[i].inMap ]_vars


\* C26: every entry of the client registry holds a client that is not
\* disposed
C26_RegistryHoldsLiveClients ==
  \A i \in 1..Len(ctx.clients) : Client(i).inMap => Client(i).live


\* C28: whenever the service fires CurrentProjectChange, the id of the new
\* project differs from the id of the project recorded before, and the new
\* project is the current project afterwards
C28_CurrentProjectChangeById ==
  [][ obs'.fired =>
        /\ obs'.result.id # svc.currentProject.id
        /\ svc'.currentProject = obs'.result ]_vars


\* C29: a document-open handler that was called before the latest dispose()
\* of the context changes nothing in the clients of the context when it goes
\* on after resolve()
C29_StaleOpenCreatesNoClient ==
  [][ (obs'.op = "ret" /\ obs'.kind = "open" /\ obs'.session # ctx.disposes)
        => ctx'.clients = ctx.clients ]_vars


\* C30: when a resolve() call has returned while multi-project support is
\* enabled and a strategy with the configured id is registered, the active
\* strategy, which computed the result, is the configured one
C30_ConfiguredStrategyResolves ==
  (obs.returned /\ svc.isEnabled /\ config.strategy \in svc.strategies)
  => svc.activeStrategy = config.strategy

====
